---- MODULE Spec2Model ----
(***************************************************************************)
(* State-machine model of the weed-identifier page (pages/Home) and of    *)
(* its remote analysis client (lib/gemini.ts).                             *)
(*                                                                         *)
(* JavaScript strings are modelled as sequences of tokens.  The word       *)
(* 'base64' and the comma are tokens of their own, so that                 *)
(* includes('base64') and split('base64,') are computed, not assumed.      *)
(* The JavaScript value null is the distinguished value Null, undefined    *)
(* is Undefined; neither is a string the program can build.                *)
(*                                                                         *)
(* Scheduling: one UI thread.  Every action below is one task of the event *)
(* loop (an event handler, a promise continuation, a FileReader event      *)
(* dispatch).  A continuation of an already settled promise is a microtask *)
(* and runs before any other task; MicrotaskPending blocks the tasks.      *)
(***************************************************************************)
EXTENDS Naturals, Sequences, FiniteSets

VARIABLES
    image,        \* useState<string | null>(null)
    analysis,     \* useState<string>('')
    loading,      \* useState(false)
    error,        \* useState<string | null>(null)
    inputValue,   \* value of the <input type="file"> control: NoFile or the picked file
    bootPc,       \* position of loadDefaultContent
    readers,      \* FileReaders of handleImageUpload that are still reading
    calls,        \* handleAnalyze invocations awaiting analyzeImage
    events,       \* number of user events handled: file picks and button clicks
    invocations,  \* number of handleAnalyze invocations
    requests,     \* number of model.generateContent requests issued
    last,         \* the task that ran last: its handler and the setters it called
    cArg,         \* client specification: the imageData argument of analyzeImage
    cPc,          \* client specification: position of that analyzeImage call
    fText,        \* formatter specification: the text argument of formatAnalysis
    fOut,         \* formatter specification: the elements formatAnalysis returned
    fPc           \* formatter specification: position of that formatAnalysis call

vars == <<image, analysis, loading, error, inputValue, bootPc, readers, calls,
          events, invocations, requests, last, cArg, cPc, fText, fOut, fPc>>

homeVars == <<image, analysis, loading, error, inputValue, bootPc, readers, calls,
              events, invocations, last>>

(***************************************************************************)
(* Bounds of the model.                                                    *)
(***************************************************************************)
MaxEvents == 2
MaxLen == 4
MaxText == 4

(***************************************************************************)
(* Values.                                                                 *)
(***************************************************************************)
Null == <<"<null>">>
Undefined == <<"<undefined>">>
NoFile == [type |-> <<>>, size |-> 0, name |-> "<none>"]

DEFAULT_ANALYSIS == <<"1. Weed Identification: ... Dandelion ...">>

MsgDefaultLoadFailed == <<"Failed to load default image">>
MsgInvalidType == <<"Please upload a valid image file">>
MsgTooLarge == <<"Image size should be less than 20MB">>
MsgReadFailure == <<"Failed to read the image file. Please try again.">>
MsgInvalidFormat == <<"Invalid image data format">>
MsgInvalidBase64 == <<"Invalid base64 image data">>
MsgNoAnalysis == <<"No analysis generated">>
MsgTryAgain == <<"Failed to analyze image. Please try again.">>

SizeLimit == 20 * 1024 * 1024

(***************************************************************************)
(* String operations of the JavaScript runtime, on token sequences.        *)
(***************************************************************************)
\* s.startsWith(p)
startsWith(s, p) == Len(s) >= Len(p) /\ SubSeq(s, 1, Len(p)) = p

\* the positions at which p occurs in s
Occurrences(s, p) ==
    {i \in 1..Len(s) : i + Len(p) - 1 <= Len(s) /\ SubSeq(s, i, i + Len(p) - 1) = p}

\* s.includes(p)
includes(s, p) == Occurrences(s, p) # {}

Min(S) == CHOOSE x \in S : \A y \in S : x <= y

\* s.split(sep)[1]: the text between the first and the second occurrence of
\* sep (to the end of s when there is no second one); undefined when sep does
\* not occur in s.
splitSecond(s, sep) ==
    IF ~includes(s, sep) THEN Undefined
    ELSE LET first == Min(Occurrences(s, sep))
             rest == SubSeq(s, first + Len(sep), Len(s))
         IN IF includes(rest, sep)
            THEN SubSeq(rest, 1, Min(Occurrences(rest, sep)) - 1)
            ELSE rest

\* !v for the values a string variable can hold
Falsy(v) == v = Null \/ v = Undefined \/ v = <<>>

(***************************************************************************)
(* Files the user can pick, and FileReader.readAsDataURL.                  *)
(***************************************************************************)
TypeJpeg == <<"image", "/", "jpeg">>
TypePng == <<"image", "/", "png">>
TypeText == <<"text", "/", "plain">>
TypeHtml == <<"text", "/", "html">>

Files ==
    { [type |-> TypeJpeg, size |-> SizeLimit,     name |-> "limit.jpg"],
      [type |-> TypePng,  size |-> 1,             name |-> "small.png"],
      [type |-> TypePng,  size |-> 0,             name |-> "empty.png"],
      [type |-> TypeJpeg, size |-> SizeLimit + 1, name |-> "over.jpg"],
      [type |-> TypePng,  size |-> 21 * 1024 * 1024, name |-> "big.png"],
      [type |-> TypeText, size |-> 1,             name |-> "notes.txt"] }

\* the base64 payload of a blob of the given size: empty for an empty blob
Base64(size) == IF size = 0 THEN <<>> ELSE <<"QUJD">>

\* reader.result after a successful readAsDataURL(blob)
DataURL(type, size) == <<"data:">> \o type \o <<";", "base64", ",">> \o Base64(size)

\* what response.blob() can resolve with for /default-weed.jpg: the body the
\* server answered with 200, be it the picture, an empty body, or the page a
\* single-page server answers for a missing file
DefaultBlobs ==
    { [type |-> TypeJpeg, size |-> 1, name |-> "default-weed.jpg"],
      [type |-> TypeJpeg, size |-> 0, name |-> "default-weed.jpg"],
      [type |-> TypeHtml, size |-> 1, name |-> "default-weed.jpg"] }

\* reader.result after a successful readAsDataURL(blob) of the bootstrap
DefaultDataURL(blob) ==
    <<"data:">> \o blob.type \o <<";", "base64", ",">>
        \o (IF blob.size = 0 THEN <<>> ELSE <<"ZGVmYXVsdA==">>)

(***************************************************************************)
(* lib/gemini.ts: analyzeImage.                                            *)
(***************************************************************************)
\* the catch block: every failure is rethrown as an Error with a wrapped message
analyzeImageCatch(thrown) ==
    IF thrown.isError THEN <<"Failed to analyze image: ">> \o thrown.message
    ELSE MsgTryAgain

\* mutant: the payload after the marker is not checked
analyzeImageValidateNoPayloadCheck(imageData) ==
    IF Falsy(imageData) \/ ~includes(imageData, <<"base64">>)
    THEN [request |-> FALSE, data |-> <<>>,
          msg |-> analyzeImageCatch([isError |-> TRUE, message |-> MsgInvalidFormat])]
    ELSE LET base64Data == splitSecond(imageData, <<"base64", ",">>)
         IN [request |-> TRUE, data |-> base64Data, msg |-> <<>>]

\* The synchronous part, before model.generateContent: request = TRUE when the
\* request is issued with payload data, otherwise the call rejects with msg.
analyzeImageValidate(imageData) ==
    IF Falsy(imageData) \/ ~includes(imageData, <<"base64">>)
    THEN [request |-> FALSE, data |-> <<>>,
          msg |-> analyzeImageCatch([isError |-> TRUE, message |-> MsgInvalidFormat])]
    ELSE LET base64Data == splitSecond(imageData, <<"base64", ",">>)
         IN IF Falsy(base64Data)
            THEN [request |-> FALSE, data |-> <<>>,
                  msg |-> analyzeImageCatch([isError |-> TRUE, message |-> MsgInvalidBase64])]
            ELSE [request |-> TRUE, data |-> base64Data, msg |-> <<>>]

\* What the remote model can answer: a text (possibly empty), an Error with
\* the service's message, or a thrown value that is not an Error.
Texts == {<<"T1">>, <<"T2">>}
ServiceMessages == {<<"503 Service Unavailable">>}
Outcomes ==
    [kind : {"text"}, text : Texts \cup {<<>>}, message : {<<>>}]
    \cup [kind : {"error"}, text : {<<>>}, message : ServiceMessages]
    \cup [kind : {"thrown"}, text : {<<>>}, message : {<<>>}]

\* The part after the request settles: the promise analyzeImage returns.
analyzeImageSettle(outcome) ==
    IF outcome.kind = "text"
    THEN IF Falsy(outcome.text)
         THEN [ok |-> FALSE, text |-> <<>>,
               msg |-> analyzeImageCatch([isError |-> TRUE, message |-> MsgNoAnalysis])]
         ELSE [ok |-> TRUE, text |-> outcome.text, msg |-> <<>>]
    ELSE [ok |-> FALSE, text |-> <<>>,
          msg |-> analyzeImageCatch([isError |-> outcome.kind = "error",
                                     message |-> outcome.message])]

(***************************************************************************)
(* pages/Home: state after the first render.                               *)
(***************************************************************************)
\* one setter call, as recorded in last.log
Set(setter, val) == [set |-> setter, val |-> val]

\* no call / a task record: the handler that ran, the handleAnalyze call and the
\* file it was about (NoCall, NoFile when none), and the setters it called
NoCall == [id |-> 0, imageData |-> Null, st |-> "none", data |-> <<>>, msg |-> <<>>,
           analysis0 |-> <<>>, bootDone0 |-> FALSE]

Task(op, call, file, log) == [op |-> op, call |-> call, file |-> file, log |-> log]

HomeInit ==
    /\ image = Null
    /\ analysis = <<>>
    /\ loading = FALSE
    /\ error = Null
    /\ inputValue = NoFile
    /\ bootPc = "mount"
    /\ readers = {}
    /\ calls = {}
    /\ events = 0
    /\ invocations = 0
    /\ last = Task("render", NoCall, NoFile, <<>>)

Init ==
    /\ HomeInit
    /\ requests = 0
    /\ cArg = Null
    /\ cPc = "unused"
    /\ fText = <<>>
    /\ fOut = <<>>
    /\ fPc = "unused"

\* A rejected promise's continuation is queued as a microtask: it runs before
\* the event loop takes any other task.
MicrotaskPending == \E c \in calls : c.st = "rejected"

\* The user can act once the mount effect has run.
Interactive == bootPc # "mount" /\ ~MicrotaskPending

(***************************************************************************)
(* useEffect(() => loadDefaultContent(), [])                               *)
(***************************************************************************)
\* the catch block of loadDefaultContent
loadDefaultContentCatch(op) ==
    /\ error' = MsgDefaultLoadFailed
    /\ loading' = FALSE
    /\ bootPc' = "done"
    /\ last' = Task(op, NoCall, NoFile,
                     <<Set("setError", MsgDefaultLoadFailed), Set("setLoading", FALSE)>>)
    /\ UNCHANGED <<image, analysis>>

\* the effect runs: setLoading(true); await fetch(DEFAULT_IMAGE)
loadDefaultContent ==
    /\ bootPc = "mount"
    /\ loading' = TRUE
    /\ bootPc' = "fetching"
    /\ last' = Task("bootStart", NoCall, NoFile, <<Set("setLoading", TRUE)>>)
    /\ UNCHANGED <<image, analysis, error, inputValue, readers, calls, events,
                   invocations, requests, cArg, cPc, fText, fOut, fPc>>

\* fetch resolved: response.ok decides between await response.blob() and the throw
FetchResolved(ok) ==
    /\ bootPc = "fetching"
    /\ ~MicrotaskPending
    /\ IF ok
       THEN /\ bootPc' = "blob"
            /\ last' = Task("bootFetched", NoCall, NoFile, <<>>)
            /\ UNCHANGED <<image, analysis, loading, error>>
       ELSE loadDefaultContentCatch("bootFetchNotOk")
    /\ UNCHANGED <<inputValue, readers, calls, events, invocations, requests,
                   cArg, cPc, fText, fOut, fPc>>

\* fetch rejected (network failure)
FetchRejected ==
    /\ bootPc = "fetching"
    /\ ~MicrotaskPending
    /\ loadDefaultContentCatch("bootFetchRejected")
    /\ UNCHANGED <<inputValue, readers, calls, events, invocations, requests,
                   cArg, cPc, fText, fOut, fPc>>

\* response.blob() resolved: reader.readAsDataURL(blob)
BlobResolved ==
    /\ bootPc = "blob"
    /\ ~MicrotaskPending
    /\ bootPc' = "reading"
    /\ last' = Task("bootBlob", NoCall, NoFile, <<>>)
    /\ UNCHANGED <<image, analysis, loading, error, inputValue, readers, calls, events,
                   invocations, requests, cArg, cPc, fText, fOut, fPc>>

\* response.blob() rejected
BlobRejected ==
    /\ bootPc = "blob"
    /\ ~MicrotaskPending
    /\ loadDefaultContentCatch("bootBlobRejected")
    /\ UNCHANGED <<inputValue, readers, calls, events, invocations, requests,
                   cArg, cPc, fText, fOut, fPc>>

\* reader.onloadend of loadDefaultContent, with reader.result = result
bootOnLoadEnd(result, op, pre) ==
    /\ image' = result
    /\ analysis' = DEFAULT_ANALYSIS
    /\ loading' = FALSE
    /\ bootPc' = "done"
    /\ last' = Task(op, NoCall, NoFile,
                     pre \o <<Set("setImage", result),
                              Set("setAnalysis", DEFAULT_ANALYSIS),
                              Set("setLoading", FALSE)>>)

\* the read of blob, the one response.blob() resolved with, succeeded: the
\* reader fires load, then loadend (nothing reads the blob before this task)
BootReaderLoad(blob) ==
    /\ bootPc = "reading"
    /\ ~MicrotaskPending
    /\ bootOnLoadEnd(DefaultDataURL(blob), "bootLoaded", <<>>)
    /\ UNCHANGED <<error, inputValue, readers, calls, events, invocations,
                   requests, cArg, cPc, fText, fOut, fPc>>

\* the read failed: the reader fires error (onerror), then loadend (onloadend)
\* with reader.result = null, both in the same task
BootReaderError ==
    /\ bootPc = "reading"
    /\ ~MicrotaskPending
    /\ error' = MsgDefaultLoadFailed
    /\ bootOnLoadEnd(Null, "bootReadError",
                     <<Set("setError", MsgDefaultLoadFailed), Set("setLoading", FALSE)>>)
    /\ UNCHANGED <<inputValue, readers, calls, events, invocations, requests,
                   cArg, cPc, fText, fOut, fPc>>

(***************************************************************************)
(* handleAnalyze                                                           *)
(***************************************************************************)
\* mutant: a new invocation drops the calls still pending
handleAnalyzeCancelsPending(imageData, op, file, pre) ==
    LET v == analyzeImageValidate(imageData)
        c == [id |-> invocations + 1, imageData |-> imageData,
              st |-> IF v.request THEN "request" ELSE "rejected",
              data |-> v.data, msg |-> v.msg, analysis0 |-> analysis,
              bootDone0 |-> bootPc = "done"]
    IN /\ loading' = TRUE
       /\ error' = Null
       /\ invocations' = invocations + 1
       /\ requests' = IF v.request THEN requests + 1 ELSE requests
       /\ calls' = {c}
       /\ last' = Task(op, c, file,
                       pre \o <<Set("setLoading", TRUE), Set("setError", Null)>>)

\* mutant: the request is issued before the image is validated
handleAnalyzeRequestFirst(imageData, op, file, pre) ==
    LET v == analyzeImageValidate(imageData)
        c == [id |-> invocations + 1, imageData |-> imageData,
              st |-> IF v.request THEN "request" ELSE "rejected",
              data |-> v.data, msg |-> v.msg, analysis0 |-> analysis,
              bootDone0 |-> bootPc = "done"]
    IN /\ loading' = TRUE
       /\ error' = Null
       /\ invocations' = invocations + 1
       /\ requests' = requests + 1
       /\ calls' = calls \cup {c}
       /\ last' = Task(op, c, file,
                       pre \o <<Set("setLoading", TRUE), Set("setError", Null)>>)

\* handleAnalyze(imageData) up to its await: setLoading(true), setError(null),
\* and the synchronous part of analyzeImage.  pre: the setters the calling
\* handler called before it.  The call keeps the AnalysisResult it started
\* from (analysis0) and whether the bootstrap had run to its end (bootDone0).
handleAnalyze(imageData, op, file, pre) ==
    LET v == analyzeImageValidate(imageData)
        c == [id |-> invocations + 1, imageData |-> imageData,
              st |-> IF v.request THEN "request" ELSE "rejected",
              data |-> v.data, msg |-> v.msg, analysis0 |-> analysis,
              bootDone0 |-> bootPc = "done"]
    IN /\ loading' = TRUE
       /\ error' = Null
       /\ invocations' = invocations + 1
       /\ requests' = IF v.request THEN requests + 1 ELSE requests
       /\ calls' = calls \cup {c}
       /\ last' = Task(op, c, file,
                       pre \o <<Set("setLoading", TRUE), Set("setError", Null)>>)

\* mutant: loading is reset in the catch block only
handleAnalyzeSuccessKeepsLoading(c, text) ==
    /\ analysis' = text
    /\ calls' = calls \ {c}
    /\ last' = Task("analyzeOk", c, NoFile, <<Set("setAnalysis", text)>>)
    /\ UNCHANGED <<image, error, loading>>

\* try { setAnalysis(result) } finally { setLoading(false) }
handleAnalyzeSuccess(c, text) ==
    /\ analysis' = text
    /\ loading' = FALSE
    /\ calls' = calls \ {c}
    /\ last' = Task("analyzeOk", c, NoFile,
                     <<Set("setAnalysis", text), Set("setLoading", FALSE)>>)
    /\ UNCHANGED <<image, error>>

\* mutant: the catch block also resets the result
handleAnalyzeFailureClearsResult(c, msg) ==
    /\ error' = msg
    /\ analysis' = <<>>
    /\ loading' = FALSE
    /\ calls' = calls \ {c}
    /\ last' = Task("analyzeFailed", c, NoFile,
                     <<Set("setError", msg), Set("setLoading", FALSE)>>)
    /\ UNCHANGED image

\* mutant: there is no finally block, loading is reset after a success only
handleAnalyzeFailureKeepsLoading(c, msg) ==
    /\ error' = msg
    /\ calls' = calls \ {c}
    /\ last' = Task("analyzeFailed", c, NoFile, <<Set("setError", msg)>>)
    /\ UNCHANGED <<image, analysis, loading>>

\* catch (err) { setError(err.message) } finally { setLoading(false) }
handleAnalyzeFailure(c, msg) ==
    /\ error' = msg
    /\ loading' = FALSE
    /\ calls' = calls \ {c}
    /\ last' = Task("analyzeFailed", c, NoFile,
                     <<Set("setError", msg), Set("setLoading", FALSE)>>)
    /\ UNCHANGED <<image, analysis>>

\* analyzeImage rejected before its request: the continuation is a microtask
AnalyzeRejected(c) ==
    /\ c.st = "rejected"
    /\ handleAnalyzeFailure(c, c.msg)
    /\ UNCHANGED <<inputValue, bootPc, readers, events, invocations, requests,
                   cArg, cPc, fText, fOut, fPc>>

\* the request of call c settles with outcome
AnalyzeSettled(c, outcome) ==
    /\ c.st = "request"
    /\ ~MicrotaskPending
    /\ LET r == analyzeImageSettle(outcome)
       IN IF r.ok THEN handleAnalyzeSuccess(c, r.text)
          ELSE handleAnalyzeFailure(c, r.msg)
    /\ UNCHANGED <<inputValue, bootPc, readers, events, invocations, requests,
                   cArg, cPc, fText, fOut, fPc>>

\* onClick={() => handleAnalyze(image)} of the "Identify Weed" button, which is
\* rendered when image is truthy and is disabled while loading
Identify ==
    /\ Interactive
    /\ events < MaxEvents
    /\ ~Falsy(image)
    /\ ~loading
    /\ events' = events + 1
    /\ handleAnalyze(image, "identify", NoFile, <<>>)
    /\ UNCHANGED <<image, analysis, inputValue, bootPc, readers, cArg, cPc, fText, fOut, fPc>>

(***************************************************************************)
(* handleImageUpload                                                       *)
(***************************************************************************)
\* mutant: the size check rejects a file of exactly the limit
handleImageUploadAtLimit(file) ==
    /\ Interactive
    /\ events < MaxEvents
    /\ file # inputValue
    /\ events' = events + 1
    /\ IF ~startsWith(file.type, <<"image", "/">>)
       THEN /\ error' = MsgInvalidType
            /\ inputValue' = file
            /\ last' = Task("uploadInvalidType", NoCall, file,
                            <<Set("setError", MsgInvalidType)>>)
            /\ UNCHANGED readers
       ELSE IF file.size >= SizeLimit
       THEN /\ error' = MsgTooLarge
            /\ inputValue' = file
            /\ last' = Task("uploadTooLarge", NoCall, file,
                            <<Set("setError", MsgTooLarge)>>)
            /\ UNCHANGED readers
       ELSE /\ readers' = readers \cup {[id |-> events + 1, file |-> file]}
            /\ inputValue' = NoFile
            /\ last' = Task("uploadAccepted", NoCall, file, <<>>)
            /\ UNCHANGED error
    /\ UNCHANGED <<image, analysis, loading, bootPc, calls, invocations,
                   requests, cArg, cPc, fText, fOut, fPc>>

\* The change event of the file control with e.target.files[0] = file.  The
\* control fires change only when its selection changes.
handleImageUpload(file) ==
    /\ Interactive
    /\ events < MaxEvents
    /\ file # inputValue
    /\ events' = events + 1
    /\ IF ~startsWith(file.type, <<"image", "/">>)
       THEN /\ error' = MsgInvalidType
            /\ inputValue' = file
            /\ last' = Task("uploadInvalidType", NoCall, file,
                            <<Set("setError", MsgInvalidType)>>)
            /\ UNCHANGED readers
       ELSE IF file.size > SizeLimit
       THEN /\ error' = MsgTooLarge
            /\ inputValue' = file
            /\ last' = Task("uploadTooLarge", NoCall, file,
                            <<Set("setError", MsgTooLarge)>>)
            /\ UNCHANGED readers
       ELSE /\ readers' = readers \cup {[id |-> events + 1, file |-> file]}
            /\ inputValue' = NoFile
            /\ last' = Task("uploadAccepted", NoCall, file, <<>>)
            /\ UNCHANGED error
    /\ UNCHANGED <<image, analysis, loading, bootPc, calls, invocations,
                   requests, cArg, cPc, fText, fOut, fPc>>

\* The change event with no file (the chooser was dismissed, which clears the
\* selection): if (!file) return
handleImageUploadNoFile ==
    /\ Interactive
    /\ inputValue # NoFile
    /\ inputValue' = NoFile
    /\ last' = Task("uploadNoFile", NoCall, NoFile, <<>>)
    /\ UNCHANGED <<image, analysis, loading, error, bootPc, readers, calls, events,
                   invocations, requests, cArg, cPc, fText, fOut, fPc>>

\* reader.onloadend of handleImageUpload, with reader.result = result
uploadOnLoadEnd(result, op, file, pre) ==
    /\ image' = result
    /\ handleAnalyze(result, op, file,
                     pre \o <<Set("setImage", result), Set("setError", Null)>>)

\* the read of r succeeded: the reader fires load, then loadend
ReaderLoad(r) ==
    /\ ~MicrotaskPending
    /\ readers' = readers \ {r}
    /\ uploadOnLoadEnd(DataURL(r.file.type, r.file.size), "uploadLoaded", r.file, <<>>)
    /\ UNCHANGED <<analysis, inputValue, bootPc, events, cArg, cPc, fText, fOut, fPc>>

\* the read of r failed: the reader fires error (onerror), then loadend
\* (onloadend) with reader.result = null, both in the same task
ReaderError(r) ==
    /\ ~MicrotaskPending
    /\ readers' = readers \ {r}
    /\ uploadOnLoadEnd(Null, "uploadReadError", r.file,
                       <<Set("setError", MsgReadFailure)>>)
    /\ UNCHANGED <<analysis, inputValue, bootPc, events, cArg, cPc, fText, fOut, fPc>>

(***************************************************************************)
(* The page.                                                               *)
(***************************************************************************)
Next ==
    \/ loadDefaultContent
    \/ \E ok \in BOOLEAN : FetchResolved(ok)
    \/ FetchRejected
    \/ BlobResolved
    \/ BlobRejected
    \/ \E blob \in DefaultBlobs : BootReaderLoad(blob)
    \/ BootReaderError
    \/ \E file \in Files : handleImageUpload(file)
    \/ handleImageUploadNoFile
    \/ \E r \in readers : ReaderLoad(r)
    \/ \E r \in readers : ReaderError(r)
    \/ Identify
    \/ \E c \in calls : AnalyzeRejected(c)
    \/ \E c \in calls, outcome \in Outcomes : AnalyzeSettled(c, outcome)

Spec == Init /\ [][Next]_vars

\* The remote call of every invocation completes: the request settles, and the
\* continuation of a rejected call runs.
Fairness ==
    /\ WF_vars(\E c \in calls : AnalyzeRejected(c))
    /\ WF_vars(\E c \in calls, outcome \in Outcomes : AnalyzeSettled(c, outcome))

FairSpec == Spec /\ Fairness

(***************************************************************************)
(* The remote analysis client on its own: analyzeImage called with any     *)
(* string of at most MaxLen tokens, or with null.                          *)
(***************************************************************************)
Alphabet == {"base64", ",", "x"}

Strings(n) == UNION {[1..k -> Alphabet] : k \in 0..n}

ClientInit ==
    /\ HomeInit
    /\ requests = 0
    /\ cArg \in Strings(MaxLen) \cup {Null}
    /\ cPc = [st |-> "called", data |-> <<>>, msg |-> <<>>, text |-> <<>>]
    /\ fText = <<>>
    /\ fOut = <<>>
    /\ fPc = "unused"

\* analyzeImage(cArg) up to the await of model.generateContent
ClientCall ==
    /\ cPc.st = "called"
    /\ LET v == analyzeImageValidate(cArg)
       IN IF v.request
          THEN /\ requests' = requests + 1
               /\ cPc' = [st |-> "requested", data |-> v.data, msg |-> <<>>, text |-> <<>>]
          ELSE /\ requests' = requests
               /\ cPc' = [st |-> "rejected", data |-> <<>>, msg |-> v.msg, text |-> <<>>]
    /\ UNCHANGED <<homeVars, cArg, fText, fOut, fPc>>

\* the request settles with outcome
ClientSettled(outcome) ==
    /\ cPc.st = "requested"
    /\ LET r == analyzeImageSettle(outcome)
       IN cPc' = [st |-> IF r.ok THEN "resolved" ELSE "rejected",
                  data |-> cPc.data, msg |-> r.msg, text |-> r.text]
    /\ UNCHANGED <<homeVars, cArg, requests, fText, fOut, fPc>>

ClientNext ==
    \/ ClientCall
    \/ \E outcome \in Outcomes : ClientSettled(outcome)

ClientSpec == ClientInit /\ [][ClientNext]_vars

(***************************************************************************)
(* pages/Home: formatAnalysis.  The text is a sequence of characters.      *)
(***************************************************************************)
\* the characters * _ # and the backtick (written "backtick")
Decoration == {"*", "_", "#", "backtick"}
\* the characters String.trim and \s take for white space: WhiteSpace and
\* LineTerminator of ECMAScript.  A character that cannot be written in a
\* string here is written as its code point, "U+00A0".
WhiteSpace ==
    {" ", "\t", "\n", "\f", "\r", "U+000B", "U+00A0", "U+1680",
     "U+2000", "U+2001", "U+2002", "U+2003", "U+2004", "U+2005", "U+2006",
     "U+2007", "U+2008", "U+2009", "U+200A", "U+2028", "U+2029", "U+202F",
     "U+205F", "U+3000", "U+FEFF"}
IsSpace(ch) == ch \in WhiteSpace
IsDigit(ch) == ch \in {"0", "1", "2", "3", "4", "5", "6", "7", "8", "9"}

\* str.split(ch) for a one-character separator
RECURSIVE split(_, _)
split(str, ch) ==
    IF \A i \in 1..Len(str) : str[i] # ch THEN <<str>>
    ELSE LET i == Min({k \in 1..Len(str) : str[k] = ch})
         IN <<SubSeq(str, 1, i - 1)>> \o split(SubSeq(str, i + 1, Len(str)), ch)

\* parts.join(ch)
RECURSIVE join(_, _)
join(parts, ch) ==
    IF parts = <<>> THEN <<>>
    ELSE IF Len(parts) = 1 THEN parts[1]
    ELSE parts[1] \o <<ch>> \o join(Tail(parts), ch)

\* str.trim()
RECURSIVE trimStart(_)
trimStart(str) ==
    IF str # <<>> /\ IsSpace(Head(str)) THEN trimStart(Tail(str)) ELSE str
RECURSIVE trimEnd(_)
trimEnd(str) ==
    IF str # <<>> /\ IsSpace(str[Len(str)])
    THEN trimEnd(SubSeq(str, 1, Len(str) - 1)) ELSE str
trim(str) == trimEnd(trimStart(str))

\* line.replace(/[*_#backtick]/g, '')
removeDecoration(line) == SelectSeq(line, LAMBDA ch : ch \notin Decoration)

\* the length of the longest prefix of digits: what \d+ takes
RECURSIVE leadingDigits(_)
leadingDigits(str) ==
    IF str # <<>> /\ IsDigit(Head(str)) THEN 1 + leadingDigits(Tail(str)) ELSE 0

\* /^\d+\./.test(str)
testNumbered(str) ==
    LET n == leadingDigits(str)
    IN n >= 1 /\ Len(str) > n /\ str[n + 1] = "."

\* str.replace(/^\d+\.\s*/, '')
removeNumber(str) ==
    IF testNumbered(str)
    THEN trimStart(SubSeq(str, leadingDigits(str) + 2, Len(str)))
    ELSE str

\* one rendered element (key = the line's index), or null for a dropped line:
\* h3 = SectionHeader, labelled = LabeledRow, bullet = BulletRow, p = Paragraph
Element(key, kind, label, text) ==
    [key |-> key, kind |-> kind, label |-> label, text |-> text]

\* mutant: const [label, value] = ...split(':'): the value stops at the second colon
formatLineFirstValuePart(line, index) ==
    LET cleanLine == trim(removeDecoration(line))
    IN IF cleanLine = <<>> THEN Element(index, "null", <<>>, <<>>)
       ELSE IF testNumbered(cleanLine)
       THEN Element(index, "SectionHeader", <<>>, removeNumber(cleanLine))
       ELSE IF Head(cleanLine) = "-" /\ (\E i \in 1..Len(cleanLine) : cleanLine[i] = ":")
       THEN LET parts == split(Tail(cleanLine), ":")
            IN Element(index, "LabeledRow", trim(parts[1]), trim(parts[2]))
       ELSE IF Head(cleanLine) = "-"
       THEN Element(index, "BulletRow", <<>>, trim(Tail(cleanLine)))
       ELSE Element(index, "Paragraph", <<>>, cleanLine)

\* the callback of map: the element of one line
formatLine(line, index) ==
    LET cleanLine == trim(removeDecoration(line))
    IN IF cleanLine = <<>> THEN Element(index, "null", <<>>, <<>>)
       ELSE IF testNumbered(cleanLine)
       THEN Element(index, "SectionHeader", <<>>, removeNumber(cleanLine))
       ELSE IF Head(cleanLine) = "-" /\ (\E i \in 1..Len(cleanLine) : cleanLine[i] = ":")
       THEN LET parts == split(Tail(cleanLine), ":")
                label == parts[1]
                value == trim(join(Tail(parts), ":"))
            IN Element(index, "LabeledRow", trim(label), value)
       ELSE IF Head(cleanLine) = "-"
       THEN Element(index, "BulletRow", <<>>, trim(Tail(cleanLine)))
       ELSE Element(index, "Paragraph", <<>>, cleanLine)

\* text.split('\n').map(...).filter(Boolean)
formatAnalysis(text) ==
    LET lines == split(text, "\n")
        mapped == [i \in 1..Len(lines) |-> formatLine(lines[i], i - 1)]
    IN SelectSeq(mapped, LAMBDA e : e.kind # "null")

\* formatAnalysis called with any text of at most MaxText characters
Characters == {"\n", " ", "1", ".", "-", ":", "a"} \cup Decoration

FormatInit ==
    /\ HomeInit
    /\ requests = 0
    /\ cArg = Null
    /\ cPc = "unused"
    /\ fText \in UNION {[1..k -> Characters] : k \in 0..MaxText}
    /\ fOut = <<>>
    /\ fPc = "called"

\* the render evaluates formatAnalysis(analysis)
FormatRender ==
    /\ fPc = "called"
    /\ fOut' = formatAnalysis(fText)
    /\ fPc' = "rendered"
    /\ UNCHANGED <<homeVars, requests, cArg, cPc, fText>>

FormatNext == FormatRender

FormatSpec == FormatInit /\ [][FormatNext]_vars

(***************************************************************************)
(* Properties.                                                             *)
(***************************************************************************)
\* what a task's setter calls leave asserted
WroteResult(log) == \E i \in DOMAIN log : log[i].set = "setAnalysis"
WroteError(log) == \E i \in DOMAIN log : log[i].set = "setError" /\ log[i].val # Null
AssertsLoading(log) ==
    \E i \in DOMAIN log :
        /\ log[i].set = "setLoading" /\ log[i].val = TRUE
        /\ \A j \in DOMAIN log : j > i => log[j].set # "setLoading"
AssertsError(log) ==
    \E i \in DOMAIN log :
        /\ log[i].set = "setError" /\ log[i].val # Null
        /\ \A j \in DOMAIN log : j > i => log[j].set # "setError"

\* the tasks that start an operation asserting loading, and those that complete one
StartOps == {"bootStart", "identify", "uploadLoaded", "uploadReadError"}
BootFailureOps == {"bootFetchNotOk", "bootFetchRejected", "bootBlobRejected", "bootReadError"}
CompletionOps == BootFailureOps \cup {"bootLoaded", "analyzeOk", "analyzeFailed"}
RejectionOps == {"uploadInvalidType", "uploadTooLarge"}

\* C1: no task asserts loading=true together with an error; a task that starts
\* an operation (bootstrap, runAnalysis) leaves loading=true and no error; a
\* task that completes one leaves loading=false and has set exactly one of
\* {result, error}.
C1_ExactlyOneOfResultError ==
    /\ ~(AssertsLoading(last.log) /\ AssertsError(last.log))
    /\ last.op \in StartOps => loading /\ error = Null
    /\ last.op \in CompletionOps =>
           ~loading /\ (WroteResult(last.log) # WroteError(last.log))

\* the same, leaving out the bootstrap's failed decode (not a claim: it locates
\* the violation of C1)
C1_ExceptBootReadError ==
    last.op # "bootReadError" => C1_ExactlyOneOfResultError

\* the failed decode of the bootstrap has set both the canned result and the error
C1_BootReadErrorSetsBoth ==
    last.op = "bootReadError" /\ analysis = DEFAULT_ANALYSIS /\ error = MsgDefaultLoadFailed

\* the messages a failed runAnalysis stores
AnalysisMessages ==
    {analyzeImageSettle(o).msg : o \in {x \in Outcomes : ~analyzeImageSettle(x).ok}}
    \cup {analyzeImageCatch([isError |-> TRUE, message |-> m]) :
            m \in {MsgInvalidFormat, MsgInvalidBase64}}

\* C2 as claimed: when a runAnalysis invocation fails it stores a message and
\* loading=false, and AnalysisResult and UploadedImage are what they were when
\* the invocation started.  (Stated for the invocations that start after the
\* bootstrap has run to its end, and for a failure that finds an image in
\* place, so that only successful picks and their analyses interleave.)
C2_UnchangedSinceStart ==
    (last.op = "analyzeFailed" /\ last.call.bootDone0 /\ image # Null) =>
        /\ error \in AnalysisMessages
        /\ ~loading
        /\ analysis = last.call.analysis0
        /\ image = last.call.imageData

\* C2 amended: the failing completion of a runAnalysis invocation stores its
\* message in error and sets loading=false, and leaves AnalysisResult and
\* UploadedImage as they were immediately before that completion.
C2_FailureLeavesResultAndImage ==
    [][last'.op = "analyzeFailed" =>
          /\ error' \in AnalysisMessages
          /\ error' = last'.log[1].val
          /\ ~loading'
          /\ analysis' = analysis
          /\ image' = image]_vars

\* a failed runAnalysis with an earlier result still on screen
C2_Witness ==
    /\ last.op = "analyzeFailed"
    /\ analysis \in Texts
    /\ ~Falsy(image)
    /\ error \in AnalysisMessages

\* C3: when the decode of an accepted file fails, error is ReadFailure and the
\* UploadedImage and the AnalysisResult are unchanged.
C3_ReadFailureKeepsState ==
    [][last'.op = "uploadReadError" =>
          /\ error' = MsgReadFailure
          /\ image' = image
          /\ analysis' = analysis]_vars

\* the media type names an image
IsImageType(type) == Len(type) >= 2 /\ type[1] = "image" /\ type[2] = "/"

\* C4: a pick of a file that is no image sets InvalidType, a pick of an image of
\* more than 20 MiB sets TooLarge (exactly 20 MiB is accepted: a decode
\* starts); a rejected pick leaves UploadedImage and AnalysisResult alone,
\* starts no decode and no analysis.
C4_RejectedPick ==
    [][last'.op \in RejectionOps \cup {"uploadAccepted"} =>
          LET f == last'.file
              rejected == /\ image' = image /\ analysis' = analysis
                          /\ readers' = readers /\ calls' = calls
                          /\ invocations' = invocations /\ requests' = requests
                          /\ loading' = loading
          IN /\ ~IsImageType(f.type) => error' = MsgInvalidType /\ rejected
             /\ (IsImageType(f.type) /\ f.size > 20 * 1024 * 1024) =>
                    error' = MsgTooLarge /\ rejected
             /\ (IsImageType(f.type) /\ f.size <= 20 * 1024 * 1024) =>
                    /\ error' = error
                    /\ readers' \ readers = {[id |-> events', file |-> f]}
                    /\ readers \subseteq readers']_vars

\* a file over the limit was rejected with an image and a result on screen
C4_Witness ==
    /\ last.op = "uploadTooLarge"
    /\ last.file.size = 20 * 1024 * 1024 + 1
    /\ error = MsgTooLarge
    /\ ~Falsy(image)
    /\ analysis \in Texts

\* the ids of the runAnalysis invocations
CallIds == 1..MaxEvents

\* invocation id has completed in the last task
Completed(id) ==
    /\ last.op \in {"analyzeOk", "analyzeFailed"}
    /\ last.call.id = id
    /\ last.call \notin calls
    /\ ~loading
    /\ \/ last.op = "analyzeOk" /\ analysis = last.log[1].val /\ analysis \in Texts
       \/ last.op = "analyzeFailed" /\ error = last.log[1].val /\ error \in AnalysisMessages

\* C5: the task that ends a successful decode stores the data URL of the file
\* as UploadedImage, leaves error absent and loading=true, and has invoked
\* runAnalysis with that image; that invocation then completes, leaving
\* loading=false and a new AnalysisResult or an error.
C5_IntakeThenAnalysis ==
    /\ [](last.op = "uploadLoaded" =>
            /\ image = DataURL(last.file.type, last.file.size)
            /\ error = Null
            /\ loading
            /\ last.call \in calls
            /\ last.call.imageData = image)
    /\ \A id \in CallIds :
          (last.op = "uploadLoaded" /\ last.call.id = id) ~> Completed(id)

\* the analysis of a picked image has completed with a result
C5_Witness ==
    /\ Completed(1)
    /\ last.op = "analyzeOk"
    /\ events >= 1
    /\ image = DataURL(TypePng, 1)
    /\ last.call.imageData = image

\* C6 as claimed: after overlapping invocations the shared state is the one
\* written by the invocation that completed last: when the last one to
\* complete succeeds, it leaves its result, loading=false and no error of
\* another invocation.
C6_LastCompletionOwnsState ==
    (last.op = "analyzeOk" /\ calls = {}) =>
        /\ analysis = last.log[1].val
        /\ ~loading
        /\ error \notin AnalysisMessages

\* the tasks that complete a runAnalysis invocation
AnalysisCompletions == {"analyzeOk", "analyzeFailed"}

\* C6 amended: overlapping invocations are neither blocked nor cancelled, and
\* each completion applies its own writes when it completes: a success
\* writes result and loading=false and leaves error as it is, a failure
\* writes error and loading=false and leaves result as it is.  So when two
\* overlapping invocations complete one right after the other, loading=false,
\* result is that of the last success of the two and error that of the last
\* failure of the two, whichever was invoked first.
C6_CompletionOrder ==
    [][/\ last'.op = "analyzeOk" =>
            /\ last'.call \in calls /\ calls' = calls \ {last'.call}
            /\ analysis' = last'.log[1].val /\ analysis' \in Texts
            /\ ~loading'
            /\ error' = error
       /\ last'.op = "analyzeFailed" =>
            /\ last'.call \in calls /\ calls' = calls \ {last'.call}
            /\ error' = last'.log[1].val /\ error' \in AnalysisMessages
            /\ ~loading'
            /\ analysis' = analysis
       /\ invocations' = invocations + 1 =>
            calls' = calls \cup {last'.call} /\ last'.call \notin calls
       /\ (last.op \in AnalysisCompletions /\ last'.op \in AnalysisCompletions) =>
            /\ last'.call.id # last.call.id
            /\ ~loading'
            /\ last'.op = "analyzeOk" => analysis' = last'.log[1].val
            /\ (last.op = "analyzeOk" /\ last'.op = "analyzeFailed") =>
                   analysis' = last.log[1].val
            /\ last'.op = "analyzeFailed" => error' = last'.log[1].val
            /\ (last.op = "analyzeFailed" /\ last'.op = "analyzeOk") =>
                   error' = last.log[1].val]_vars

\* two invocations overlapped, the first invoked completed last and succeeded,
\* and the error of the other one is still in place
C6_Witness ==
    /\ last.op = "analyzeOk"
    /\ calls = {}
    /\ last.call.id = 1
    /\ invocations = 2
    /\ analysis = last.log[1].val
    /\ error \in AnalysisMessages

\* C7: the file control is empty after every pick, accepted or rejected.
C7_ControlResetAfterPick ==
    last.op \in RejectionOps \cup {"uploadAccepted"} => inputValue = NoFile

\* C8: a failed bootstrap sets error=DefaultLoadFailed and loading=false and
\* stores neither a placeholder image nor the canned result.
C8_BootFailureStoresNothing ==
    [][last'.op \in BootFailureOps =>
          /\ error' = MsgDefaultLoadFailed
          /\ ~loading'
          /\ image' = image
          /\ analysis' = analysis
          /\ ~WroteResult(last'.log)]_vars

\* the image string's base64 marker, and what follows its first occurrence
HasMarker(str) ==
    str # Null /\ \E i \in 1..(Len(str) - 1) : str[i] = "base64" /\ str[i + 1] = ","
AfterMarker(str) ==
    LET i == Min({k \in 1..(Len(str) - 1) : str[k] = "base64" /\ str[k + 1] = ","})
    IN SubSeq(str, i + 2, Len(str))
InvalidImageData ==
    {analyzeImageCatch([isError |-> TRUE, message |-> m]) :
        m \in {MsgInvalidFormat, MsgInvalidBase64}}

\* C9: analyzeImage with a string that has no marker, or nothing after it,
\* fails with InvalidImageData and issues no request; a request is issued
\* only for a string with a marker and a payload after it.
C9_InvalidImageDataBeforeRequest ==
    cPc.st # "called" =>
        /\ (~HasMarker(cArg) \/ AfterMarker(cArg) = <<>>) =>
               cPc.st = "rejected" /\ cPc.msg \in InvalidImageData /\ requests = 0
        /\ requests > 0 => HasMarker(cArg) /\ AfterMarker(cArg) # <<>>
        /\ requests > 0 => cPc.data = splitSecond(cArg, <<"base64", ",">>)

\* a string that ends with its marker was rejected without a request
C9_Witness ==
    /\ cPc.st = "rejected"
    /\ HasMarker(cArg)
    /\ AfterMarker(cArg) = <<>>
    /\ requests = 0

\* the tasks of the bootstrap
BootOps == BootFailureOps \cup {"bootStart", "bootFetched", "bootBlob", "bootLoaded"}

\* C10 as claimed, for its count: every runAnalysis invocation on an image
\* (from intake or from the button) makes one remote call.
C10_OneRemoteCallPerInvocation ==
    [][(invocations' = invocations + 1 /\ last'.call.imageData # Null) =>
          requests' = requests + 1]_vars

\* C10 amended: the bootstrap runs once and makes no remote call; on success
\* it stores the decoded placeholder and the canned text with loading=false;
\* the remote calls made are as many as the runAnalysis invocations whose
\* image has a base64 marker and a payload after it (an invocation on any
\* other image makes none).
C10_BootstrapMakesNoRemoteCall ==
    [][/\ last'.op \in BootOps =>
            invocations' = invocations /\ requests' = requests /\ calls' = calls
       /\ last'.op = "bootStart" <=> bootPc = "mount"
       /\ bootPc = "done" => bootPc' = "done"
       /\ last'.op = "bootLoaded" =>
            /\ image' \in {DefaultDataURL(blob) : blob \in DefaultBlobs}
            /\ analysis' = DEFAULT_ANALYSIS /\ ~loading'
       /\ invocations' = invocations + 1 =>
            LET str == last'.call.imageData
            IN requests' = IF HasMarker(str) /\ AfterMarker(str) # <<>>
                           THEN requests + 1 ELSE requests
       /\ invocations' = invocations => requests' = requests]_vars

\* the bootstrap succeeded after one pick was analysed remotely and another
\* was turned down by the client
C10_Witness ==
    /\ last.op = "bootLoaded"
    /\ image = DefaultDataURL([type |-> TypeJpeg, size |-> 1, name |-> "default-weed.jpg"])
    /\ analysis = DEFAULT_ANALYSIS
    /\ invocations = 2
    /\ requests = 1

\* the lines of fText, by the positions of its line breaks
Breaks == {i \in 1..Len(fText) : fText[i] = "\n"}
LineCount == Cardinality(Breaks) + 1
Nth(S, k) == CHOOSE n \in S : Cardinality({m \in S : m <= n}) = k
Line(j) ==
    SubSeq(fText,
           IF j = 1 THEN 1 ELSE Nth(Breaks, j - 1) + 1,
           IF j = LineCount THEN Len(fText) ELSE Nth(Breaks, j) - 1)

\* a string without the blanks around it
Max(S) == CHOOSE x \in S : \A y \in S : x >= y
Trimmed(str) ==
    LET solid == {i \in 1..Len(str) : ~IsSpace(str[i])}
    IN IF solid = {} THEN <<>> ELSE SubSeq(str, Min(solid), Max(solid))

\* a line without the characters * _ # backtick and without the blanks around it
Stripped(line) == Trimmed(SelectSeq(line, LAMBDA ch : ch \notin {"*", "_", "#", "backtick"}))

\* the stripped line starts with digits followed by a period
StartsNumbered(str) ==
    \E n \in 1..(Len(str) - 1) : str[n + 1] = "." /\ \A i \in 1..n : IsDigit(str[i])
AfterNumber(str) ==
    LET n == CHOOSE k \in 1..(Len(str) - 1) :
                 str[k + 1] = "." /\ \A i \in 1..k : IsDigit(str[i])
        rest == SubSeq(str, n + 2, Len(str))
        solid == {i \in 1..Len(rest) : ~IsSpace(rest[i])}
    IN IF solid = {} THEN <<>> ELSE SubSeq(rest, Min(solid), Len(rest))
Colons(str) == {i \in 1..Len(str) : str[i] = ":"}

\* the element the claim gives the stripped, non-empty line of index key
Expected(str, key) ==
    IF StartsNumbered(str)
    THEN [key |-> key, kind |-> "SectionHeader", label |-> <<>>, text |-> AfterNumber(str)]
    ELSE IF str[1] = "-" /\ Colons(str) # {}
    THEN [key |-> key, kind |-> "LabeledRow",
          label |-> Trimmed(SubSeq(str, 2, Min(Colons(str)) - 1)),
          text |-> Trimmed(SubSeq(str, Min(Colons(str)) + 1, Len(str)))]
    ELSE IF str[1] = "-"
    THEN [key |-> key, kind |-> "BulletRow", label |-> <<>>,
          text |-> Trimmed(SubSeq(str, 2, Len(str)))]
    ELSE [key |-> key, kind |-> "Paragraph", label |-> <<>>, text |-> str]

\* C11: formatAnalysis yields, in line order, one element for each line that
\* is not empty once stripped and none for the others (so at most as many as
\* there are lines): a SectionHeader without its number if the stripped line
\* starts with digits and a period, else a LabeledRow (label between the dash
\* and the first colon, value all that follows the first colon, trimmed) if it
\* starts with a dash and has a colon, else a BulletRow without its dash if
\* it starts with a dash, else a Paragraph holding the stripped line.
C11_FormatByLine ==
    fPc = "rendered" =>
        LET kept == {j \in 1..LineCount : Stripped(Line(j)) # <<>>}
        IN /\ Len(fOut) = Cardinality(kept)
           /\ Len(fOut) <= LineCount
           /\ \A k \in 1..Len(fOut) :
                 fOut[k] = Expected(Stripped(Line(Nth(kept, k))), Nth(kept, k) - 1)

\* a line "-a:..." whose value holds a second colon was rendered as a
\* LabeledRow with label a
C11_Witness ==
    /\ fPc = "rendered"
    /\ LineCount >= 1
    /\ \E k \in 1..Len(fOut) :
          /\ fOut[k].kind = "LabeledRow"
          /\ fOut[k].label = <<"a">>
          /\ Colons(fOut[k].text) # {}

\* C12: while a runAnalysis invocation is in flight loading=true, and a click
\* on the button (enabled only while loading=false) finds none in flight:
\* the only call in flight after it is the one it started.
C12_InFlightImpliesLoading ==
    /\ calls # {} => loading
    /\ last.op = "identify" => calls = {last.call}

\* the data URLs of the files intake accepts
UserImages ==
    {DataURL(f.type, f.size) :
        f \in {g \in Files : IsImageType(g.type) /\ g.size <= 20 * 1024 * 1024}}

\* C13: once a picked file is the UploadedImage, the completion of the
\* bootstrap's load replaces neither the image nor the AnalysisResult.
C13_BootstrapKeepsUserImage ==
    [][(image \in UserImages /\ last'.op = "bootLoaded") =>
          /\ image' = image
          /\ analysis' = analysis]_vars

\* no bootstrap fetch or decode, no file decode, no analysis call is pending
NoAsyncPending ==
    /\ bootPc \notin {"fetching", "blob", "reading"}
    /\ readers = {}
    /\ calls = {}

\* C14: when no asynchronous operation is pending, loading=false.
C14_QuiescentNotLoading ==
    NoAsyncPending => ~loading

\* all is settled after a bootstrap, two picks and their two overlapping
\* analyses, the last of which failed
C14_Witness ==
    /\ NoAsyncPending
    /\ bootPc = "done"
    /\ events = 2
    /\ invocations = 2
    /\ last.op = "analyzeFailed"
    /\ last.call.id = 1
    /\ ~loading

====
